---- MODULE Spec2Model ----
(***************************************************************************)
(* Model of pipeline.py: the AS-path normalisation and graph construction  *)
(* of analyze_routes_to_graph, and the main pipeline around it             *)
(* (download, parse, analyze, size check, save, cleanup).                  *)
(*                                                                         *)
(* Python strings are sequences of code points; a token of an AS path is   *)
(* an int or a str, as pybgpdump may hand either to the analysis.          *)
(***************************************************************************)
EXTENDS Integers, Sequences, FiniteSets, TLC

VARIABLES
    pc,              \* position of the main script / of the loop being modelled
    files,           \* paths that exist on disk
    log,             \* steps of the pipeline started so far, in order
    exit_code,       \* process exit status once pc = "exited", -1 while running
    records,         \* result of parse_mrt_to_json: [is_none, val]
    idx,             \* number of records the loop at line 107 has consumed
    nodes,           \* set `nodes` of analyze_routes_to_graph
    links,           \* set `links` of analyze_routes_to_graph
    processed_paths, \* counter `processed_paths`
    as_path,         \* token sequence of the record being cleaned
    pos,             \* number of tokens the loop at line 116 has consumed
    cleaned_path,    \* list `cleaned_path`
    last_asn,        \* `last_asn`: <<>> for None, <<s>> for the string s
    graph_data,      \* result of analyze_routes_to_graph: [is_none, nodes, links]
    warned,          \* the size warning of line 220 has been printed
    out_writes,      \* number of times OUTPUT_GRAPH_PATH was opened for writing
    out_content      \* what json.dump wrote to OUTPUT_GRAPH_PATH: [is_none, nodes, links]

vars == <<pc, files, log, exit_code, records, idx, nodes, links, processed_paths,
          as_path, pos, cleaned_path, last_asn, graph_data, warned, out_writes,
          out_content>>

pipeVars == <<files, log, exit_code, records, idx, nodes, links, processed_paths,
              graph_data, warned, out_writes, out_content>>

(***************************************************************************)
(* Bounds of the model.                                                    *)
(***************************************************************************)
MaxPathLen == 3     \* tokens of the AS path the normaliser is stepped through
MaxTokens == 4      \* tokens of all records of one parsed dump together
MaxRecords == 3     \* records of one parsed dump
TrailSide == 102    \* ASes on each side of the dump that passes the link ceiling

(***************************************************************************)
(* Program constants.                                                      *)
(***************************************************************************)
MAX_NODES == 5000
MAX_LINKS == 10000

DOWNLOAD_PATH_GZ == "bview.20231001.0000.gz"
DECOMPRESSED_PATH == "latest_dump.mrt"
PARSED_JSON_PATH == "parsed_routes.json"
OUTPUT_GRAPH_PATH == "site/data/as_graph.json"

(***************************************************************************)
(* Strings and tokens.                                                     *)
(***************************************************************************)
\* Code points of the characters the model's tokens are made of.
ChrMinus == 45
ChrZero == 48
ChrNine == 57
ChrSuperTwo == 178

\* The characters below U+0100 that str.isdigit counts as digits beyond 0-9:
\* superscript two, superscript three, superscript one.
SuperscriptDigits == {178, 179, 185}

\* One character of str.isdigit: Unicode Numeric_Type Digit or Decimal.
IsDigitChar(c) == (c >= ChrZero /\ c <= ChrNine) \/ c \in SuperscriptDigits

\* str.isdigit(): at least one character, and every character a digit.
IsDigit(s) == Len(s) >= 1 /\ \A k \in 1..Len(s) : IsDigitChar(s[k])

\* The decimal digits of a natural number, as str(int) writes them.
RECURSIVE NatToStr(_)
NatToStr(n) ==
    IF n < 10 THEN <<ChrZero + n>>
    ELSE Append(NatToStr(n \div 10), ChrZero + (n % 10))

\* str(int)
IntToStr(n) == IF n < 0 THEN <<ChrMinus>> \o NatToStr(0 - n) ELSE NatToStr(n)

\* A token of an AS path: a Python int or a Python str.
IntItem(n) == [is_int |-> TRUE, n |-> n, s |-> <<>>]
StrItem(s) == [is_int |-> FALSE, n |-> 0, s |-> s]

\* str(item): the decimal form of an int, a str unchanged.
Str(item) == IF item.is_int THEN IntToStr(item.n) ELSE item.s

\* a < b on Python strings: lexicographic by code point, a proper prefix first.
RECURSIVE StrLessFrom(_, _, _)
StrLessFrom(a, b, k) ==
    IF k > Len(a) THEN k <= Len(b)
    ELSE IF k > Len(b) THEN FALSE
    ELSE IF a[k] # b[k] THEN a[k] < b[k]
    ELSE StrLessFrom(a, b, k + 1)

StrLess(a, b) == StrLessFrom(a, b, 1)

\* The pair stored as traversed, without sorted().
SortedPairUnsorted(source, target) == <<source, target>>

\* tuple(sorted((source, target))): sorted is stable, so only b < a swaps.
SortedPair(source, target) ==
    IF StrLess(target, source) THEN <<target, source>> ELSE <<source, target>>

(***************************************************************************)
(* The normaliser: the loop of lines 114-123.                              *)
(***************************************************************************)
\* The loop state before the first token: cleaned_path = [], last_asn = None.
CleanStart == [cleaned_path |-> <<>>, last_asn |-> <<>>]

\* Loop body with the prepending check dropped: every digit token is appended.
ItemStepNoCollapse(st, item) ==
    LET asn_str == Str(item) IN
    IF IsDigit(asn_str)
    THEN [cleaned_path |-> Append(st.cleaned_path, asn_str), last_asn |-> <<asn_str>>]
    ELSE st

\* Loop body in which a discarded token resets last_asn.
ItemStepReset(st, item) ==
    LET asn_str == Str(item) IN
    IF IsDigit(asn_str)
    THEN IF st.last_asn # <<asn_str>>
         THEN [cleaned_path |-> Append(st.cleaned_path, asn_str),
               last_asn |-> <<asn_str>>]
         ELSE st
    ELSE [st EXCEPT !.last_asn = <<>>]

\* One iteration of `for item in as_path` (lines 116-123).
ItemStep(st, item) ==
    LET asn_str == Str(item) IN
    IF IsDigit(asn_str)
    THEN IF st.last_asn # <<asn_str>>
         THEN [cleaned_path |-> Append(st.cleaned_path, asn_str),
               last_asn |-> <<asn_str>>]
         ELSE st
    ELSE st

\* The iterations lo..hi of the loop, in order, from the loop state st. The
\* range is halved so that paths of thousands of tokens evaluate in logarithmic
\* depth: the tokens of lo..mid are folded first, then those of mid+1..hi from
\* the state the first half left. (The test on `left` always holds, a cleaned
\* path being no longer than the tokens read; it makes TLC evaluate the first
\* half before it enters the second.)
RECURSIVE CleanRange(_, _, _, _)
CleanRange(st, path, lo, hi) ==
    IF lo > hi THEN st
    ELSE IF lo = hi THEN ItemStep(st, path[lo])
    ELSE LET mid == (lo + hi) \div 2
             left == CleanRange(st, path, lo, mid)
         IN  IF Len(left.cleaned_path) <= mid
             THEN CleanRange(left, path, mid + 1, hi)
             ELSE left

\* The loop state after the whole loop (lines 114-123).
CleanLoop(path) == CleanRange(CleanStart, path, 1, Len(path))

\* cleaned_path after the whole loop.
Clean(path) == CleanLoop(path).cleaned_path

(***************************************************************************)
(* The graph builder: lines 103-151.                                       *)
(***************************************************************************)
\* nodes, links and processed_paths before the first record (lines 103-106).
GraphStart == [nodes |-> {}, links |-> {}, processed_paths |-> 0]

\* Edge loop body that forgets nodes.add(target).
EdgeStepNoTarget(g, cleaned, i) ==
    LET source == cleaned[i]
        target == cleaned[i + 1]
    IN  [g EXCEPT !.nodes = @ \cup {source},
                  !.links = @ \cup {SortedPair(source, target)}]

\* One iteration of `for i in range(len(cleaned_path) - 1)` (lines 128-137);
\* i counts from 1 here, from 0 in the code.
EdgeStep(g, cleaned, i) ==
    LET source == cleaned[i]
        target == cleaned[i + 1]
    IN  [g EXCEPT !.nodes = (@ \cup {source}) \cup {target},
                  !.links = @ \cup {SortedPair(source, target)}]

\* The iterations lo..hi of the edge loop, in order, halved as CleanRange is.
\* (The test on `left` always holds: the edge loop leaves processed_paths alone.)
RECURSIVE EdgeRange(_, _, _, _)
EdgeRange(g, cleaned, lo, hi) ==
    IF lo > hi THEN g
    ELSE IF lo = hi THEN EdgeStep(g, cleaned, lo)
    ELSE LET mid == (lo + hi) \div 2
             left == EdgeRange(g, cleaned, lo, mid)
         IN  IF left.processed_paths = g.processed_paths
             THEN EdgeRange(left, cleaned, mid + 1, hi)
             ELSE left

\* The whole edge loop of lines 128-137 on one cleaned path.
EdgeLoop(g, cleaned) == EdgeRange(g, cleaned, 1, Len(cleaned) - 1)

\* Record loop body that starts `links` afresh for every record.
FoldRecordFreshLinks(g, record) ==
    IF record.as_path = <<>> THEN g
    ELSE LET cleaned == Clean(record.as_path) IN
         IF Len(cleaned) < 2 THEN g
         ELSE [EdgeLoop([g EXCEPT !.links = {}], cleaned)
                  EXCEPT !.processed_paths = @ + 1]

\* One iteration of `for record in records` (lines 107-141).
FoldRecord(g, record) ==
    IF record.as_path = <<>> THEN g                 \* line 109: not as_path
    ELSE LET cleaned == Clean(record.as_path) IN
         IF Len(cleaned) < 2 THEN g                 \* line 125
         ELSE [EdgeLoop(g, cleaned) EXCEPT !.processed_paths = @ + 1]

\* The record loop over recs[k], recs[k+1], ..., in order.
RECURSIVE FoldFrom(_, _, _)
FoldFrom(g, recs, k) ==
    IF k > Len(recs) THEN g
    ELSE FoldFrom(FoldRecord(g, recs[k]), recs, k + 1)

\* The D3 structure of lines 147-150. The two lists enumerate unordered sets,
\* so their order is whatever the sets' iteration yields; a list is kept here
\* as the set of its elements, and len() of it is Cardinality.
ExportGraph(g) ==
    [is_none |-> FALSE,
     nodes |-> {[id |-> node_id] : node_id \in g.nodes},
     links |-> {[source |-> link_tuple[1], target |-> link_tuple[2]] :
                   link_tuple \in g.links}]

\* The value None where a graph is expected.
NoGraph == [is_none |-> TRUE, nodes |-> {}, links |-> {}]

\* The value None where a list of records is expected.
NoRecords == [is_none |-> TRUE, val |-> <<>>]

\* analyze_routes_to_graph(records), as one function (lines 96-151).
AnalyzeRoutesToGraph(recs) ==
    IF recs = <<>> THEN NoGraph                     \* line 98: not records
    ELSE ExportGraph(FoldFrom(GraphStart, recs, 1))

(***************************************************************************)
(* Inputs: the AS paths and the parsed dumps the model ranges over.        *)
(***************************************************************************)
\* The str "AS_SET", a marker that is no AS number.
StrAsSet == <<65, 83, 95, 83, 69, 84>>

\* Tokens of the paths the normaliser is stepped through: the ints 7, 10 and
\* -7, and the strs "7", "AS_SET", superscript two and "".
NormItems ==
    {IntItem(7), IntItem(10), IntItem(0 - 7), StrItem(<<ChrZero + 7>>),
     StrItem(StrAsSet), StrItem(<<ChrSuperTwo>>), StrItem(<<>>)}

\* Tokens of the paths of a parsed dump: the ints 7 and 10, the strs "9" and
\* "AS_SET". As strings "10" < "7" < "9".
DumpItems == {IntItem(7), IntItem(10), StrItem(<<ChrNine>>), StrItem(StrAsSet)}

\* All sequences of length 0..n over S.
SeqsUpTo(S, n) == UNION {[1..k -> S] : k \in 0..n}

\* A record as parse_mrt_to_json builds it (lines 75-78); the prefix is opaque.
Record(path) == [prefix |-> "192.0.2.0/24", as_path |-> path]

\* The lists of at most r records with at most t tokens in all; every record
\* has a non-empty as_path, as line 80 requires of a parsed record.
RECURSIVE RecordSeqs(_, _)
RecordSeqs(r, t) ==
    {<<>>} \cup
    (IF r = 0 THEN {}
     ELSE UNION {{<<Record(path)>> \o rest :
                     path \in [1..k -> DumpItems], rest \in RecordSeqs(r - 1, t - k)} :
                 k \in 1..t})

\* The paths [1,2], [2,1], [1,2]: one link seen three times, both ways.
DedupDump ==
    <<Record(<<IntItem(1), IntItem(2)>>), Record(<<IntItem(2), IntItem(1)>>),
      Record(<<IntItem(1), IntItem(2)>>)>>

\* The paths [100,200,300], [400,200].
MultiHopDump ==
    <<Record(<<IntItem(100), IntItem(200), IntItem(300)>>),
      Record(<<IntItem(400), IntItem(200)>>)>>

\* A dump that passes the node ceiling alone: one path of MAX_NODES + 1 ASes.
ManyNodesDump == <<Record([j \in 1..(MAX_NODES + 1) |-> IntItem(j)])>>

\* A dump that passes the link ceiling alone: one path of MAX_LINKS + 2 tokens,
\* a trail through the complete bipartite graph on two sides of TrailSide ASes.
\* Token i of the trail is on the first side for even i; no link is walked twice.
TrailNode(i) ==
    LET p == i \div 2
        x == p % TrailSide
    IN  IF i % 2 = 0 THEN 1 + x
        ELSE TrailSide + 1 + ((x + 2 * (p \div TrailSide) + 1) % TrailSide)

ManyLinksDump == <<Record([j \in 1..(MAX_LINKS + 2) |-> IntItem(TrailNode(j - 1))])>>

\* What parse_mrt_to_json may return on success.
ParsedDumps ==
    RecordSeqs(MaxRecords, MaxTokens)
        \cup {DedupDump, MultiHopDump, ManyNodesDump, ManyLinksDump}

(***************************************************************************)
(* The main pipeline: lines 182-235.                                       *)
(***************************************************************************)
\* One line of the pipeline's progress: the step started, and the files a
\* cleanup_files call was given.
Step(name) == [step |-> name, args |-> {}]
CleanupStep(paths) == [step |-> "cleanup", args |-> paths]

\* cleanup_files(*paths) (lines 171-179): every listed file that exists is
\* removed, unless os.remove raises OSError, which leaves it in place.
CleanupFiles(disk, paths) == {disk \ removed : removed \in SUBSET (disk \cap paths)}

\* `not graph_data` (line 155): None is falsy; the dict of line 147 always
\* holds its two keys, so it is truthy even when both lists are empty.
NotGraphData(g) == g.is_none

\* The condition of line 219.
ExceedsLimits(g) ==
    Cardinality(g.nodes) > MAX_NODES \/ Cardinality(g.links) > MAX_LINKS

Init ==
    /\ pc = "download"
    /\ files = {}
    /\ log = <<>>
    /\ exit_code = 0 - 1
    /\ records = NoRecords
    /\ idx = 0
    /\ nodes = {}
    /\ links = {}
    /\ processed_paths = 0
    /\ as_path = <<>>
    /\ pos = 0
    /\ cleaned_path = <<>>
    /\ last_asn = <<>>
    /\ graph_data = NoGraph
    /\ warned = FALSE
    /\ out_writes = 0
    /\ out_content = NoGraph

analysisVars == <<idx, nodes, links, processed_paths, as_path, pos, cleaned_path,
                  last_asn>>

\* The abort without the cleanup_files call.
AbortAfterNoCleanup(disk, steps) ==
    /\ files' = disk
    /\ log' = log \o steps
    /\ pc' = "exited"
    /\ exit_code' = 1

\* exit(1) after cleanup_files(DOWNLOAD_PATH_GZ, DECOMPRESSED_PATH), the abort
\* of lines 206-207, 213-214 and 229-230.
AbortAfter(disk, steps) ==
    /\ files' \in CleanupFiles(disk, {DOWNLOAD_PATH_GZ, DECOMPRESSED_PATH})
    /\ log' = log \o steps \o <<CleanupStep({DOWNLOAD_PATH_GZ, DECOMPRESSED_PATH})>>
    /\ pc' = "exited"
    /\ exit_code' = 1

\* Step 1 (lines 186-188) and download_mrt_file (lines 31-44).
Download ==
    /\ pc = "download"
    /\ \/ /\ files' = files \cup {DOWNLOAD_PATH_GZ}
          /\ pc' = "parse"
          /\ exit_code' = exit_code
       \/ \* the request fails, before or after dest_path was opened
          /\ files' \in {files, files \cup {DOWNLOAD_PATH_GZ}}
          /\ pc' = "exited"
          /\ exit_code' = 1
    /\ log' = Append(log, Step("download"))
    /\ UNCHANGED <<records, graph_data, warned, out_writes, out_content>>
    /\ UNCHANGED analysisVars

\* Step 3 (lines 203-207) and parse_mrt_to_json (lines 59-94).
Parse ==
    /\ pc = "parse"
    /\ \/ /\ \E recs \in ParsedDumps : records' = [is_none |-> FALSE, val |-> recs]
          /\ pc' = "analyze"
          /\ log' = Append(log, Step("parse"))
          /\ UNCHANGED <<files, exit_code>>
       \/ /\ records' = NoRecords
          /\ AbortAfter(files, <<Step("parse")>>)
    /\ UNCHANGED <<graph_data, warned, out_writes, out_content>>
    /\ UNCHANGED analysisVars

\* Entry of analyze_routes_to_graph with the guard of line 98 left out.
AnalyzeEnterNoGuard ==
    /\ pc = "analyze"
    /\ log' = Append(log, Step("analyze"))
    /\ nodes' = {}
    /\ links' = {}
    /\ processed_paths' = 0
    /\ idx' = 0
    /\ pc' = "analyze_loop"
    /\ UNCHANGED <<graph_data, files, exit_code, records, as_path, pos, cleaned_path,
                   last_asn, warned, out_writes, out_content>>

\* Step 4, line 210: the call, and lines 96-106 of analyze_routes_to_graph.
AnalyzeEnter ==
    /\ pc = "analyze"
    /\ log' = Append(log, Step("analyze"))
    /\ IF records.val = <<>>                        \* line 98: not records
       THEN /\ graph_data' = NoGraph
            /\ pc' = "analyzed"
            /\ UNCHANGED <<nodes, links, processed_paths, idx>>
       ELSE /\ nodes' = GraphStart.nodes
            /\ links' = GraphStart.links
            /\ processed_paths' = GraphStart.processed_paths
            /\ idx' = 0
            /\ pc' = "analyze_loop"
            /\ graph_data' = graph_data
    /\ UNCHANGED <<files, exit_code, records, as_path, pos, cleaned_path, last_asn,
                   warned, out_writes, out_content>>

\* One iteration of the record loop (lines 107-141) on records[idx].
AnalyzeRecord ==
    /\ pc = "analyze_loop"
    /\ idx < Len(records.val)
    /\ LET record == records.val[idx + 1]
           g == FoldRecord([nodes |-> nodes, links |-> links,
                            processed_paths |-> processed_paths], record)
           st == CleanLoop(record.as_path)
       IN  /\ nodes' = g.nodes
           /\ links' = g.links
           /\ processed_paths' = g.processed_paths
           /\ as_path' = record.as_path
           /\ IF record.as_path = <<>>
              THEN UNCHANGED <<pos, cleaned_path, last_asn>>
              ELSE /\ pos' = Len(record.as_path)
                   /\ cleaned_path' = st.cleaned_path
                   /\ last_asn' = st.last_asn
    /\ idx' = idx + 1
    /\ UNCHANGED <<pc, files, log, exit_code, records, graph_data, warned, out_writes,
                   out_content>>

\* The end of the record loop and the return of lines 144-151.
AnalyzeReturn ==
    /\ pc = "analyze_loop"
    /\ idx = Len(records.val)
    /\ graph_data' = ExportGraph([nodes |-> nodes, links |-> links])
    /\ pc' = "analyzed"
    /\ UNCHANGED <<files, log, exit_code, records, warned, out_writes, out_content>>
    /\ UNCHANGED analysisVars

\* Lines 211-223 with the graph cut down to its nodes when it passes a ceiling.
MainAfterAnalysisSampling ==
    /\ pc = "analyzed"
    /\ IF graph_data.is_none
       THEN /\ AbortAfter(files, <<>>)
            /\ UNCHANGED <<warned, graph_data>>
       ELSE /\ warned' = ExceedsLimits(graph_data)
            /\ graph_data' = IF ExceedsLimits(graph_data)
                             THEN [graph_data EXCEPT !.links = {}]
                             ELSE graph_data
            /\ pc' = "save"
            /\ UNCHANGED <<files, log, exit_code>>
    /\ UNCHANGED <<records, out_writes, out_content>>
    /\ UNCHANGED analysisVars

\* Lines 211-223: the test of the analysis result, then the size warning.
MainAfterAnalysis ==
    /\ pc = "analyzed"
    /\ IF graph_data.is_none                        \* line 211
       THEN /\ AbortAfter(files, <<>>)
            /\ UNCHANGED warned
       ELSE /\ warned' = ExceedsLimits(graph_data)  \* lines 219-223
            /\ pc' = "save"
            /\ UNCHANGED <<files, log, exit_code>>
    /\ UNCHANGED <<records, graph_data, out_writes, out_content>>
    /\ UNCHANGED analysisVars

\* Step 5 (lines 227-230) and save_graph_data (lines 153-169).
Save ==
    /\ pc = "save"
    /\ \/ \* json.dump completes
          /\ ~NotGraphData(graph_data)
          /\ out_writes' = out_writes + 1
          /\ out_content' = graph_data
          /\ files' = files \cup {OUTPUT_GRAPH_PATH}
          /\ log' = Append(log, Step("save"))
          /\ pc' = "cleanup"
          /\ exit_code' = exit_code
       \/ \* nothing to save, or makedirs or open raises: the file is not opened
          /\ UNCHANGED <<out_writes, out_content>>
          /\ AbortAfter(files, <<Step("save")>>)
       \/ \* json.dump raises after open: the file is left cut short
          /\ ~NotGraphData(graph_data)
          /\ out_writes' = out_writes + 1
          /\ out_content' = NoGraph
          /\ AbortAfter(files \cup {OUTPUT_GRAPH_PATH}, <<Step("save")>>)
    /\ UNCHANGED <<records, graph_data, warned>>
    /\ UNCHANGED analysisVars

\* Step 6 (lines 233-235), and the script's end with status 0.
FinalCleanup ==
    /\ pc = "cleanup"
    /\ files' \in CleanupFiles(files, {DOWNLOAD_PATH_GZ, DECOMPRESSED_PATH,
                                       PARSED_JSON_PATH})
    /\ log' = Append(log, CleanupStep({DOWNLOAD_PATH_GZ, DECOMPRESSED_PATH,
                                       PARSED_JSON_PATH}))
    /\ pc' = "exited"
    /\ exit_code' = 0
    /\ UNCHANGED <<records, graph_data, warned, out_writes, out_content>>
    /\ UNCHANGED analysisVars

Next ==
    \/ Download
    \/ Parse
    \/ AnalyzeEnter
    \/ AnalyzeRecord
    \/ AnalyzeReturn
    \/ MainAfterAnalysis
    \/ Save
    \/ FinalCleanup

Spec == Init /\ [][Next]_vars

(***************************************************************************)
(* The normaliser alone, one token a step: lines 114-123 on one AS path.   *)
(***************************************************************************)
NormInit ==
    /\ pc = "for_item"
    /\ as_path \in SeqsUpTo(NormItems, MaxPathLen)
    /\ pos = 0
    /\ cleaned_path = CleanStart.cleaned_path
    /\ last_asn = CleanStart.last_asn
    /\ files = {}
    /\ log = <<>>
    /\ exit_code = 0 - 1
    /\ records = NoRecords
    /\ idx = 0
    /\ nodes = {}
    /\ links = {}
    /\ processed_paths = 0
    /\ graph_data = NoGraph
    /\ warned = FALSE
    /\ out_writes = 0
    /\ out_content = NoGraph

\* One iteration of the token loop on as_path[pos].
NormStep ==
    /\ pc = "for_item"
    /\ pos < Len(as_path)
    /\ LET st == ItemStep([cleaned_path |-> cleaned_path, last_asn |-> last_asn],
                          as_path[pos + 1])
       IN  /\ cleaned_path' = st.cleaned_path
           /\ last_asn' = st.last_asn
    /\ pos' = pos + 1
    /\ UNCHANGED <<pc, as_path>>
    /\ UNCHANGED pipeVars

NormNext == NormStep

SpecNorm == NormInit /\ [][NormNext]_vars

(***************************************************************************)
(* Properties.                                                             *)
(***************************************************************************)
\* The names of the steps started so far.
StepNames == [k \in 1..Len(log) |-> log[k].step]

IsWorkStep(name) == name # "cleanup"

\* The steps other than cleanup_files calls.
WorkSteps == SelectSeq(StepNames, IsWorkStep)

PipelineOrder == <<"download", "parse", "analyze", "save">>

\* The accumulated graph as analyze_routes_to_graph would return it now.
Accumulated == ExportGraph([nodes |-> nodes, links |-> links])

\* All permutations of 1..n.
Orders(n) == {p \in [1..n -> 1..n] : \A a, b \in 1..n : p[a] = p[b] => a = b}

\* The cleaned paths of the records, as the set of the paths of length >= 2.
UsablePaths(recs) ==
    {c \in {Clean(recs[r].as_path) : r \in 1..Len(recs)} : Len(c) >= 2}

\* The unordered pair {a, b} in its canonical orientation.
CanonPair(a, b) == CHOOSE q \in {<<a, b>>, <<b, a>>} : ~StrLess(q[2], q[1])

\* The reference link set: every adjacent pair of every usable cleaned path.
RefLinks(recs) ==
    UNION {{CanonPair(c[i], c[i + 1]) : i \in 1..(Len(c) - 1)} : c \in UsablePaths(recs)}

\* The reference node set: the endpoints of the reference links.
RefNodes(recs) ==
    {l[1] : l \in RefLinks(recs)} \cup {l[2] : l \in RefLinks(recs)}

\* No record has a cleaned path of two or more ASes.
NoUsablePath(recs) == \A r \in 1..Len(recs) : Len(Clean(recs[r].as_path)) < 2

\* ^[0-9]+$
IsDecimalNumeral(s) ==
    Len(s) >= 1 /\ \A k \in 1..Len(s) : s[k] >= ChrZero /\ s[k] <= ChrNine

\* The string forms of the tokens of a path, those that are no decimal numeral deleted.
RECURSIVE DecimalTokens(_)
DecimalTokens(path) ==
    IF path = <<>> THEN <<>>
    ELSE LET s == Str(Head(path)) IN
         (IF IsDecimalNumeral(s) THEN <<s>> ELSE <<>>) \o DecimalTokens(Tail(path))

\* Every run of equal adjacent elements collapsed to one element.
RECURSIVE CollapseRuns(_)
CollapseRuns(s) ==
    IF Len(s) <= 1 THEN s
    ELSE IF s[1] = s[2] THEN CollapseRuns(Tail(s))
    ELSE <<s[1]>> \o CollapseRuns(Tail(s))

\* C1: after every prefix of the records has been folded in, and in the
\* exported result, both ends of every link are nodes and no link joins an
\* AS to itself.
C1_GraphInvariant ==
    /\ \A l \in links : l[1] \in nodes /\ l[2] \in nodes /\ l[1] # l[2]
    /\ \A l \in graph_data.links :
          /\ [id |-> l.source] \in graph_data.nodes
          /\ [id |-> l.target] \in graph_data.nodes
          /\ l.source # l.target

\* A proper prefix is folded in, its last path had a prepended AS, and links exist.
C1_Witness ==
    /\ pc = "analyze_loop"
    /\ idx >= 1
    /\ idx < Len(records.val)
    /\ links # {}
    /\ \E k \in 1..(Len(as_path) - 1) : Str(as_path[k]) = Str(as_path[k + 1])

\* C2: two ASes are joined by at most one link however often and in whichever
\* direction paths walk between them, and the link is stored with
\* source <= target in string order; the paths [1,2], [2,1], [1,2] give
\* exactly one link and two nodes.
C2_UndirectedDedup ==
    /\ \A l \in links :
          /\ ~StrLess(l[2], l[1])
          /\ <<l[2], l[1]>> \in links => l[1] = l[2]
    /\ (~records.is_none /\ records.val = DedupDump /\ pc = "analyzed") =>
          /\ links = {<<IntToStr(1), IntToStr(2)>>}
          /\ nodes = {IntToStr(1), IntToStr(2)}

\* The three paths [1,2], [2,1], [1,2] are folded in: one link, two nodes.
C2_Witness ==
    /\ ~records.is_none
    /\ records.val = DedupDump
    /\ pc = "analyze_loop"
    /\ idx = 3
    /\ Cardinality(links) = 1
    /\ Cardinality(nodes) = 2

\* C3: the node set and the link set of the result are the same for every
\* permutation of the records (lists of up to MaxRecords records).
C3_OrderIndependence ==
    (pc = "analyzed" /\ ~records.is_none /\ Len(records.val) \in 1..MaxRecords) =>
        \A p \in Orders(Len(records.val)) :
            AnalyzeRoutesToGraph([k \in 1..Len(records.val) |-> records.val[p[k]]])
                = graph_data

\* A result of two records with different paths, the second of which adds links.
C3_Witness ==
    /\ pc = "analyzed"
    /\ ~records.is_none
    /\ Len(records.val) = 2
    /\ records.val[1] # records.val[2]
    /\ Cardinality(graph_data.links) = 2
    /\ AnalyzeRoutesToGraph(<<records.val[1]>>) # graph_data

C5_UniformNoUsableRecords ==
    /\ (pc = "analyzed" /\ ~records.is_none /\ NoUsablePath(records.val)) =>
          graph_data = AnalyzeRoutesToGraph(<<>>)
    \* the run for zero records ends aborted, nothing saved (C4, C10)
    /\ (pc = "exited" /\ ~records.is_none /\ NoUsablePath(records.val)) =>
          (exit_code = 1 /\ out_writes = 0)

\* C6: cleaned_path never holds two equal adjacent elements; a path of one
\* repeated identifier cleans to that one element, an empty path to an empty one.
C6_NoAdjacentDuplicates ==
    /\ \A k \in 1..(Len(cleaned_path) - 1) : cleaned_path[k] # cleaned_path[k + 1]
    /\ (pos = Len(as_path) /\ as_path = <<>>) => cleaned_path = <<>>
    /\ (pos = Len(as_path) /\ as_path # <<>> /\ IsDigit(Str(as_path[1]))
            /\ \A k \in 1..Len(as_path) : Str(as_path[k]) = Str(as_path[1]))
          => cleaned_path = <<Str(as_path[1])>>

\* The path [7, "7", 7] is cleaned to ["7"].
C6_Witness ==
    /\ pc = "for_item"
    /\ pos = 3
    /\ as_path = <<IntItem(7), StrItem(<<ChrZero + 7>>), IntItem(7)>>
    /\ cleaned_path = <<IntToStr(7)>>

\* C7: after every token, cleaned_path is the tokens read so far with those
\* that are no decimal numeral deleted and every run of equal neighbours
\* collapsed to one; every element of it is a decimal numeral.
C7_FilterThenCollapse ==
    /\ cleaned_path = CollapseRuns(DecimalTokens(SubSeq(as_path, 1, pos)))
    /\ \A k \in 1..Len(cleaned_path) : IsDecimalNumeral(cleaned_path[k])

\* The string forms of the tokens of a path, those str.isdigit rejects deleted.
RECURSIVE IsDigitTokens(_)
IsDigitTokens(path) ==
    IF path = <<>> THEN <<>>
    ELSE LET s == Str(Head(path)) IN
         (IF IsDigit(s) THEN <<s>> ELSE <<>>) \o IsDigitTokens(Tail(path))

\* C7 with str.isdigit in the place of the decimal numerals: after every
\* token, cleaned_path is the tokens read so far with those str.isdigit rejects
\* deleted and every run of equal neighbours collapsed to one, so a token that
\* is dropped never resets the last accepted identifier.
C7_IsDigitFilterThenCollapse ==
    /\ cleaned_path = CollapseRuns(IsDigitTokens(SubSeq(as_path, 1, pos)))
    /\ \A k \in 1..Len(cleaned_path) : IsDigit(cleaned_path[k])
    /\ (pos = 3 /\ as_path = <<IntItem(7), StrItem(StrAsSet), IntItem(7)>>) =>
          cleaned_path = <<IntToStr(7)>>

\* C8: for a non-empty list of records the link set of the result is the set
\* of canonical pairs of neighbours of the cleaned paths of length >= 2, and
\* the node set is the set of their endpoints; [100,200,300], [400,200] gives
\* four nodes and the links (100,200), (200,300), (200,400).
C8_ReferenceGraph ==
    /\ (pc = "analyzed" /\ ~records.is_none /\ records.val # <<>>) =>
          /\ graph_data = ExportGraph([nodes |-> RefNodes(records.val),
                                       links |-> RefLinks(records.val)])
          /\ links = RefLinks(records.val)
          /\ nodes = RefNodes(records.val)
    /\ (pc = "analyzed" /\ ~records.is_none /\ records.val = MultiHopDump) =>
          /\ nodes = {IntToStr(100), IntToStr(200), IntToStr(300), IntToStr(400)}
          /\ links = {<<IntToStr(100), IntToStr(200)>>,
                      <<IntToStr(200), IntToStr(300)>>,
                      <<IntToStr(200), IntToStr(400)>>}

\* The result for [100,200,300], [400,200].
C8_Witness ==
    /\ pc = "analyzed"
    /\ ~records.is_none
    /\ records.val = MultiHopDump
    /\ Cardinality(graph_data.links) = 3
    /\ Cardinality(graph_data.nodes) = 4

\* C9: whether or not a ceiling is passed, the graph given to save_graph_data
\* and the graph written are the graph the analysis returned, and a run that
\* printed the warning ends only after its save step.
C9_CeilingsWarnOnly ==
    /\ pc \in {"save", "cleanup"} => graph_data = Accumulated
    /\ (pc = "exited" /\ Len(WorkSteps) = 4) => graph_data = Accumulated
    /\ pc = "cleanup" => out_content = Accumulated
    /\ (pc = "exited" /\ exit_code = 0) => out_content = Accumulated
    /\ pc \in {"save", "cleanup"} => warned = ExceedsLimits(Accumulated)
    /\ warned => pc \in {"save", "cleanup", "exited"}
    /\ (warned /\ pc = "exited") => Len(WorkSteps) = 4

\* A run that passed the link ceiling alone has saved the whole graph and
\* ended with status 0.
C9_Witness ==
    /\ pc = "exited"
    /\ exit_code = 0
    /\ warned
    /\ Cardinality(links) > MAX_LINKS
    /\ Cardinality(nodes) <= MAX_NODES
    /\ out_content = Accumulated

\* C10: the steps start in the order download, parse, analyze, save, with
\* cleanup last; the output file is written at most once and only after the
\* three steps before save succeeded; a failed step ends the run with status
\* 1 and no later step; an abort after a successful download has called
\* cleanup_files on the downloaded file.
C10_StepOrdering ==
    /\ Len(WorkSteps) <= Len(PipelineOrder)
    /\ \A k \in 1..Len(WorkSteps) : WorkSteps[k] = PipelineOrder[k]
    /\ \A k \in 1..Len(log) : log[k].step = "cleanup" => k = Len(log)
    /\ out_writes <= 1
    /\ out_writes = 1 =>
          /\ Len(WorkSteps) = 4
          /\ DOWNLOAD_PATH_GZ \in files \/ pc = "exited"
          /\ ~records.is_none
          /\ ~graph_data.is_none
    /\ pc # "exited" <=> exit_code = 0 - 1
    /\ pc = "exited" => exit_code \in {0, 1}
    /\ (pc = "exited" /\ exit_code = 0) =>
          StepNames = PipelineOrder \o <<"cleanup">>
    \* a failed download, parse, analysis, save
    /\ (Len(WorkSteps) = 1 /\ pc # "parse") => (pc = "exited" /\ exit_code = 1)
    /\ (Len(WorkSteps) >= 2 /\ records.is_none) =>
          (pc = "exited" /\ exit_code = 1 /\ Len(WorkSteps) = 2)
    /\ (Len(WorkSteps) >= 3 /\ graph_data.is_none /\ pc \notin {"analyze_loop", "analyzed"}) =>
          (pc = "exited" /\ exit_code = 1 /\ Len(WorkSteps) = 3)
    /\ (Len(WorkSteps) = 4 /\ out_content.is_none) => (pc = "exited" /\ exit_code = 1)
    \* an abort after the download
    /\ (pc = "exited" /\ exit_code = 1 /\ Len(WorkSteps) >= 2) =>
          /\ log[Len(log)].step = "cleanup"
          /\ DOWNLOAD_PATH_GZ \in log[Len(log)].args

\* A save that failed after opening the file: one write, cleanup, status 1.
C10_Witness ==
    /\ pc = "exited"
    /\ exit_code = 1
    /\ out_writes = 1
    /\ StepNames = PipelineOrder \o <<"cleanup">>
    /\ DOWNLOAD_PATH_GZ \notin files

====
